---------------------------- MODULE Spec2Model ----------------------------
(***************************************************************************)
(* A model of the ledger engine of kaeomm (src/src/transactions.py): the   *)
(* Transactions store (a pandas DataFrame kept sorted by time), the        *)
(* vocabulary registry of src/src/config.py and the operations add,        *)
(* add_bulk, allot (split), link, update and search, with the files the   *)
(* store, the registry and the scripts of src/src/system.py read and write.*)
(*                                                                         *)
(* Representation.                                                         *)
(*   - The DataFrame self._df is the sequence df of rows; the row with     *)
(*     pandas label i (0-based, the labels reset_index leaves) is df[i+1]. *)
(*   - A missing cell (NaN / None / <NA>) is NaN for the integer columns   *)
(*     id, allot and link, NA for the string columns and NATags for tags.  *)
(*     The empty string '' is a different value from a missing cell.       *)
(*   - Money is counted in whole units, so float arithmetic is exact.      *)
(*   - A cell of the time column is a record: ts = TRUE for a Timestamp    *)
(*     with v its hour; ts = FALSE for a str that an update left in the    *)
(*     column (bad = TRUE when the text is no date at all).                *)
(*   - The comma-joined tags string is the sequence of its tag names.      *)
(*   - Config._categories / Config._tags are kept as sets; the sorted      *)
(*     order of the two lists is not read by any modelled operation.       *)
(*   - Two fields are history and no part of the program: last, the call   *)
(*     being returned from, and the field piece of a row, TRUE for a row   *)
(*     that allot appended. No operation reads them.                       *)
(***************************************************************************)
EXTENDS Integers, Sequences, FiniteSets, TLC

VARIABLES
    df,          \* Transactions._df: the rows, in DataFrame order
    categories,  \* Config._categories
    tags,        \* Config._tags
    last,        \* history: the call being returned from, its arguments, result and the rows before it
    nEdits,      \* history: number of update, link, registry and script calls made
    columns,     \* the column list of Transactions._df
    disk,        \* the files of Config.db_dir: file name -> content
    clock,       \* datetime.now(), in whole seconds
    sources      \* Sources._sources: the registered sources, in order

vars == <<df, categories, tags, last, nEdits, columns, disk, clock, sources>>

------------------------------------------------------------------------------
(* Bounds of the exploration *)

MaxRecords == 3
MaxEdits == 1

------------------------------------------------------------------------------
(* Missing values *)

NaN == 0 - 1            \* a missing integer cell (ids, allot, link are never negative)
NA == "<NaN>"           \* a missing string cell
NATags == <<NA>>        \* a missing tags cell
None == "<None>"        \* an argument that was omitted (Python None)

IsNa(x) == x = NaN

\* the elements of a sequence
Elems(seq) == {seq[j] : j \in 1..Len(seq)}

------------------------------------------------------------------------------
(* str.lower() and str.lower().capitalize() on the strings the model uses *)

Lower(s) ==
    CASE s \in {"BANK", "Bank"} -> "bank"
      [] s \in {"BROKER", "Broker"} -> "broker"
      [] s \in {"CARD", "Card"} -> "card"
      [] s \in {"CASH", "Cash"} -> "cash"
      [] s \in {"CASHBACK", "Cashback"} -> "cashback"
      [] s \in {"EUR", "Eur"} -> "eur"
      [] s \in {"EUROPE/WARSAW", "Europe/Warsaw", "Europe/warsaw"} -> "europe/warsaw"
      [] s \in {"FOOD", "Food"} -> "food"
      [] s \in {"GIFT", "Gift"} -> "gift"
      [] s \in {"HOME", "Home"} -> "home"
      [] s \in {"LUNCH", "Lunch"} -> "lunch"
      [] s \in {"MANUAL", "Manual"} -> "manual"
      [] s \in {"NAN", "Nan"} -> "nan"
      [] s \in {"NONE", "None"} -> "none"
      [] s \in {"PLN", "Pln"} -> "pln"
      [] s \in {"REFUND", "Refund"} -> "refund"
      [] s \in {"RENT", "Rent"} -> "rent"
      [] s \in {"SHARES", "Shares"} -> "shares"
      [] s \in {"SHOP", "Shop"} -> "shop"
      [] s \in {"SYSTEM_CAT", "System_Cat", "System_cat"} -> "system_cat"
      [] s \in {"TRANSFER", "Transfer"} -> "transfer"
      [] s \in {"UPDATED", "Updated"} -> "updated"
      [] s \in {"USD", "Usd"} -> "usd"
      [] s \in {"UTC", "Utc"} -> "utc"
      [] s \in {"WAGE", "Wage"} -> "wage"
      [] OTHER -> s      \* the other strings of the model have no upper-case letter

\* str.capitalize(): the first character upper case, the rest lower case
Capitalize(s) ==
    LET l == Lower(s)
    IN  CASE l = "bank" -> "Bank"
          [] l = "broker" -> "Broker"
          [] l = "card" -> "Card"
          [] l = "cash" -> "Cash"
          [] l = "cashback" -> "Cashback"
          [] l = "eur" -> "Eur"
          [] l = "europe/warsaw" -> "Europe/warsaw"
          [] l = "food" -> "Food"
          [] l = "gift" -> "Gift"
          [] l = "home" -> "Home"
          [] l = "lunch" -> "Lunch"
          [] l = "manual" -> "Manual"
          [] l = "nan" -> "Nan"
          [] l = "none" -> "None"
          [] l = "pln" -> "Pln"
          [] l = "refund" -> "Refund"
          [] l = "rent" -> "Rent"
          [] l = "shares" -> "Shares"
          [] l = "shop" -> "Shop"
          [] l = "system_cat" -> "System_cat"
          [] l = "transfer" -> "Transfer"
          [] l = "updated" -> "Updated"
          [] l = "usd" -> "Usd"
          [] l = "utc" -> "Utc"
          [] l = "wage" -> "Wage"
          [] OTHER -> l      \* "", "*": no letter to change

Canon(s) == Capitalize(Lower(s))

------------------------------------------------------------------------------
(* Config: the vocabulary registry and the column list *)

headers ==
    <<"id", "time", "input", "type", "source", "source_id", "desc", "amount",
      "fee", "total", "curr", "note", "system", "allot", "link", "category",
      "tags">>

local_timezone == "Europe/Warsaw"

\* Config.add_new_category: the returned name, and the list after the call
add_new_category(category) == Canon(category)

CategoriesAfter(cats, category) ==
    LET c == Canon(category)
    IN  IF c \notin cats /\ c # "Nan" /\ c # "" THEN cats \cup {c} ELSE cats

\* Config.add_new_tag: the returned name, and the list after the call
add_new_tag(tag) == Canon(tag)

TagsAfter(tgs, tag) ==
    LET t == Canon(tag)
    IN  IF t \notin tgs /\ t # "Nan" THEN tgs \cup {t} ELSE tgs

\* [add_new_tag(tag) for tag in tags]: the canonical names, in order
CanonTags(list) == [k \in 1..Len(list) |-> add_new_tag(list[k])]

RECURSIVE TagsAfterAll(_, _)
TagsAfterAll(tgs, list) ==
    IF list = <<>> THEN tgs
    ELSE TagsAfterAll(TagsAfter(tgs, Head(list)), Tail(list))

------------------------------------------------------------------------------
(* Sources: the registry the store resolves source names with. A source is  *)
(* its name, id and currency; every source of the model has the statement   *)
(* timezone UTC, no description and no column mapping.                      *)

\* the sources sources.json holds when the program starts. Source keeps the
\* currency in _currency; it has no attribute currency
Sources ==
    << [name |-> "Bank", id |-> 1, currency |-> "PLN"],
       [name |-> "Cash", id |-> 2, currency |-> "EUR"] >>

SetMax(S) == CHOOSE x \in S : \A y \in S : y <= x

\* the loop "for s in sources: if s.name.lower() == source.lower(): src = s":
\* the position of the last matching source, 0 when none matches (src is None)
FindSource(source) ==
    LET m == {k \in 1..Len(sources) : Lower(sources[k].name) = Lower(source)}
    IN  IF m = {} THEN 0 ELSE SetMax(m)

------------------------------------------------------------------------------
(* Time *)

TS(t) == [ts |-> TRUE, v |-> t, bad |-> FALSE]          \* a Timestamp
StrTime(t) == [ts |-> FALSE, v |-> t, bad |-> FALSE]    \* the text of a date, kept as str
BadTime == [ts |-> FALSE, v |-> 0, bad |-> TRUE]        \* a text that is no date

UtcOffset(tz) == IF tz = "Europe/Warsaw" THEN 1 ELSE 0

\* tz_localize(timezone).tz_convert(local_timezone).tz_localize(None)
ToLocal(t, timezone) == t - UtcOffset(timezone) + UtcOffset(local_timezone)

\* the order sort_values uses inside one kind of value: Timestamps by instant,
\* str by text (the text of a date sorts before a text starting with a letter)
TimeLess(a, b) ==
    IF a.ts THEN a.v < b.v
    ELSE (~a.bad /\ b.bad) \/ (a.bad = b.bad /\ a.v < b.v)

\* comparing a Timestamp with a str raises TypeError inside sort_values
Comparable(rows) ==
    \A i, j \in 1..Len(rows) : rows[i].time.ts = rows[j].time.ts

------------------------------------------------------------------------------
(* Transactions._sort: sort_values(by=['time']) then reset_index(drop=True) *)

\* the 1-based place row i of rows takes (rows with equal time keep their order)
SortPos(rows, i) ==
    1 + Cardinality({j \in 1..Len(rows) :
            \/ TimeLess(rows[j].time, rows[i].time)
            \/ (~TimeLess(rows[i].time, rows[j].time) /\ j < i)})

\* the row that lands on place k
SortSrc(rows, k) == CHOOSE i \in 1..Len(rows) : SortPos(rows, i) = k

Sorted(rows) == [k \in 1..Len(rows) |-> rows[SortSrc(rows, k)]]

IsSorted(rows) ==
    /\ Comparable(rows)
    /\ \A k \in 1..(Len(rows) - 1) : ~TimeLess(rows[k + 1].time, rows[k].time)

------------------------------------------------------------------------------
(* Rows *)

\* a row whose columns are all missing: pd.DataFrame(columns=Config.headers())
BlankRow ==
    [id |-> NaN, time |-> TS(0), input |-> NA, type |-> NA, source |-> NA,
     source_id |-> NaN, desc |-> NA, amount |-> 0, fee |-> 0, total |-> 0,
     curr |-> NA, note |-> NA, system |-> NA, allot |-> NaN, link |-> NaN,
     category |-> NA, tags |-> NATags,
     system_cat |-> NA,  \* not a column of Config.headers(): the column of
                         \* older files that migrate_colum copies to system
     piece |-> FALSE]    \* history, not a column: the row was appended by allot

\* self._df['id'].max(): NaN cells are skipped; NaN when every cell is NaN
MaxId(rows) ==
    LET S == {rows[k].id : k \in 1..Len(rows)} \ {NaN}
    IN  IF S = {} THEN NaN ELSE SetMax(S)

\* self._df['id'].max() + 1: NaN + 1 is NaN
NextId(rows) == IF IsNa(MaxId(rows)) THEN NaN ELSE MaxId(rows) + 1

\* a variant of Backfill that numbers every row by its place
BackfillAll(rows, k) ==
    [j \in 1..Len(rows) |-> IF j < k THEN rows[j] ELSE [rows[j] EXCEPT !.id = j]]

\* the loop of add_bulk over range(0, len(self._df)), from row k on
RECURSIVE Backfill(_, _)
Backfill(rows, k) ==
    IF k > Len(rows) THEN rows
    ELSE IF IsNa(rows[k].id) \/ rows[k].id = 0
         THEN Backfill([rows EXCEPT ![k].id = NextId(rows)], k + 1)
         ELSE Backfill(rows, k + 1)

\* the loop of add_bulk over new_dfs
RECURSIVE Merge(_, _)
Merge(rows, new_dfs) ==
    IF new_dfs = <<>> THEN rows
    ELSE Merge(IF rows = <<>> THEN Head(new_dfs) ELSE rows \o Head(new_dfs),
               Tail(new_dfs))

\* Transactions.add_bulk on rows: the rows it leaves and its success flag.
\* An exception of _sort is caught after the batches were concatenated.
add_bulk(rows, new_dfs) ==
    LET merged == Merge(rows, new_dfs)
    IN  IF Comparable(merged)
        THEN [success |-> TRUE, rows |-> Backfill(Sorted(merged), 1)]
        ELSE [success |-> FALSE, rows |-> merged]

------------------------------------------------------------------------------
(* Inputs *)

NoTags == [kind |-> "none", v |-> <<>>]        \* tags omitted (None)
TagList(l) == [kind |-> "list", v |-> l]       \* tags given as a list
TagText == [kind |-> "str", v |-> <<>>]        \* tags given as something else

\* a row of a DataFrame with the columns of Config.headers(), as a caller
\* hands it to add_bulk in new_dfs or as transactions.csv holds it: the cells
\* given, total = amount + fee, the other cells missing
Imported(id, t, type, src, desc, amount, fee) ==
    [BlankRow EXCEPT !.id = id, !.time = TS(t), !.type = type,
                     !.source = Sources[src].name,
                     !.source_id = Sources[src].id, !.desc = desc,
                     !.amount = amount, !.fee = fee, !.total = amount + fee,
                     !.curr = Sources[src].currency]

Rent == Imported(NaN, 1, "CARD", 1, "rent", 0 - 100, 0 - 20)
Shop == Imported(0, 2, "CASH", 2, "shop", 0 - 50, 0)
Wage == Imported(NaN, 2, "TRANSFER", 1, "wage", 100, 0 - 5)

BulkInputs ==
    { << <<Rent>> >>, << <<Shop>>, <<Wage>> >>, << <<Wage, Rent>> >>, << >> }

AddInputs ==
    { [time |-> 2, timezone |-> "UTC", type |-> "CASH", source |-> "cash",
       desc |-> "lunch", amount |-> 0 - 40, fee |-> 0, note |-> None,
       category |-> "food", tags |-> TagList(<<"home">>)],
      [time |-> 1, timezone |-> "Europe/Warsaw", type |-> "CARD",
       source |-> "Bank", desc |-> "refund", amount |-> 100, fee |-> 10,
       note |-> "cashback", category |-> None, tags |-> TagList(<<>>)],
      [time |-> 1, timezone |-> "UTC", type |-> "CARD", source |-> "Broker",
       desc |-> "shares", amount |-> 0 - 10, fee |-> 0, note |-> None,
       category |-> None, tags |-> NoTags] }

\* the persisted table the constructor finds: none, or one saved earlier
Persisted ==
    { <<>>,
      << [Rent EXCEPT !.id = 1] >> }

------------------------------------------------------------------------------
(* The files of the configuration directory and of Config.db_dir *)

\* a file name: a stem, the stamp datetime_for_filename() gave (NoStamp when
\* the name has none), and the extension
NoStamp == 0 - 1
Path(stem, stamp, ext) == [stem |-> stem, stamp |-> stamp, ext |-> ext]

ConfigFile == Path("config", NoStamp, "json")          \* 'config.json'
SourcesFile == Path("sources", NoStamp, "json")        \* 'sources.json'
Canonical == Path("transactions", NoStamp, "csv")      \* 'transactions.csv'
SaveFile == Path("transactions_", NoStamp, "csv")      \* 'transactions_.csv'

\* datetime.now().strftime('%Y-%m-%d_%H-%M-%S'): the clock, to the second
datetime_for_filename == clock

\* a directory without files
EmptyDir == [n \in {} |-> <<>>]

\* the directory after content was written to the file name (an existing file
\* of that name is replaced)
Written(d, name, content) ==
    [n \in DOMAIN d \cup {name} |-> IF n = name THEN content ELSE d[n]]

\* Config.__init__: the two lists as read from config.json, each name put in
\* canonical form
Config(d) ==
    [categories |-> {Canon(i) : i \in d[ConfigFile].categories},
     tags |-> {Canon(i) : i \in d[ConfigFile].tags}]

\* a text cell as to_csv writes it and read_csv reads it back: a missing value
\* and the empty string are both written as an empty field, which reads as NaN
CsvText(s) == IF s = "" THEN NA ELSE s

\* the row restricted to the columns cols: a cell of another column is missing
Blank(cols, r) ==
    [f \in DOMAIN r |->
        IF f = "piece" \/ f \in Elems(cols) THEN r[f] ELSE BlankRow[f]]

\* a row as to_csv writes it: a Timestamp becomes the text of its date, empty
\* text and empty tags become empty fields
CsvLine(r) ==
    [r EXCEPT !.time = IF r.time.ts THEN StrTime(r.time.v) ELSE r.time,
              !.input = CsvText(r.input), !.type = CsvText(r.type),
              !.source = CsvText(r.source), !.desc = CsvText(r.desc),
              !.curr = CsvText(r.curr), !.note = CsvText(r.note),
              !.system = CsvText(r.system), !.category = CsvText(r.category),
              !.system_cat = CsvText(r.system_cat),
              !.tags = IF r.tags = <<>> THEN NATags ELSE r.tags]

\* DataFrame.to_csv(filename, sep='|', index=False): the header line and the
\* rows, each with the cells of the columns of the table
to_csv(cols, rows) ==
    [header |-> cols,
     lines |-> [k \in 1..Len(rows) |-> CsvLine(Blank(cols, rows[k]))]]

\* Sources.__init__: the sources of sources.json, none when there is no file
load_sources(d) == IF SourcesFile \in DOMAIN d THEN d[SourcesFile] ELSE <<>>

\* the directory the constructors found when they loaded cats, tgs, Sources
\* and rows: config.json with the two lists, sources.json, no
\* transactions.csv for an empty table, else the canonical file holding the rows
Stored(rows, cats, tgs) ==
    LET d == Written(Written(EmptyDir, ConfigFile,
                             [categories |-> cats, tags |-> tgs]),
                     SourcesFile, Sources)
    IN  IF rows = <<>> THEN d
        ELSE Written(d, Canonical, to_csv(headers, rows))

\* the operation reads and writes no file and changes no column and no source
NoFiles == UNCHANGED <<columns, disk, clock, sources>>

------------------------------------------------------------------------------
(* History *)

NoCall == [op |-> "idle", outcome |-> "ok", err |-> "", before |-> <<>>]

Call(op, outcome, err, arg, before) ==
    [op |-> op, outcome |-> outcome, err |-> err, arg |-> arg, before |-> before]

\* No call is in progress: the caller has taken the result of the last one.
\* Calls are made one at a time (the engine is single-threaded and synchronous).
Idle == last.op = "idle"

\* The caller takes the result. The history of the call is dropped, so that
\* the calls that follow are explored once for each state of the program and
\* not once for each way of reaching it.
Return ==
    /\ ~Idle
    /\ last' = NoCall
    /\ UNCHANGED <<df, categories, tags, nEdits, columns, disk, clock, sources>>

------------------------------------------------------------------------------
(* Transactions.__init__ *)

Init ==
    /\ df \in Persisted
    /\ categories = {"Food"}
    /\ tags = {"Home"}
    /\ last = NoCall
    /\ nEdits = 0
    /\ columns = headers
    /\ disk = Stored(df, {"food"}, {"home"})
    /\ clock = 0
    /\ sources = load_sources(disk)

------------------------------------------------------------------------------
(* Transactions.add *)

Add(in) ==
    LET src == FindSource(in.source)
    IN  /\ Idle
        /\ UNCHANGED <<df, categories, tags, nEdits>>
        /\ IF src = 0
           THEN \* no source of that name: a failure result
                last' = Call("add", "fail", "UnknownSource", in, df)
           ELSE IF IsNa(MaxId(df))
           THEN \* int(NaN) raises ValueError before anything is written
                last' = Call("add", "raise", "ValueError", in, df)
           ELSE \* df['curr'] = src.currency: Source keeps the currency in
                \* _currency and has no attribute currency, so the read
                \* raises AttributeError. The new row is still the local df;
                \* the lines that register the tags, append the row and sort
                \* are never reached.
                last' = Call("add", "raise", "AttributeError", in, df)

------------------------------------------------------------------------------
(* Transactions.add_bulk *)

RECURSIVE Count(_)
Count(new_dfs) ==
    IF new_dfs = <<>> THEN 0 ELSE Len(Head(new_dfs)) + Count(Tail(new_dfs))

AddBulk(new_dfs) ==
    LET res == add_bulk(df, new_dfs)
    IN  /\ Idle
        /\ Len(df) + Count(new_dfs) <= MaxRecords
        /\ df' = res.rows
        /\ last' = Call("add_bulk", IF res.success THEN "ok" ELSE "fail",
                        IF res.success THEN "" ELSE "CombineFailed", new_dfs, df)
        /\ UNCHANGED <<categories, tags, nEdits>>

------------------------------------------------------------------------------
(* Transactions.allot (split) *)

Portions ==
    { <<0 - 30, 0>>, <<0 - 150, 0>>, <<30, 5>>, <<0, 0>>, <<0, 50>>,
      <<0 - 10, 0 - 30>> }

Plain == [note |-> None, category |-> None, tags |-> NoTags]

Notes ==
    { [note |-> "gift", category |-> "GIFT", tags |-> TagList(<<"home">>)],
      [note |-> "none", category |-> "", tags |-> TagList(<<>>)],
      [note |-> "gift", category |-> "gift", tags |-> TagText] }

AllotArg(p, n) ==
    [amount |-> p[1], fee |-> p[2], note |-> n.note, category |-> n.category,
     tags |-> n.tags]

AllotInputs ==
    {AllotArg(p, Plain) : p \in Portions}
        \cup {AllotArg(<<30, 5>>, n) : n \in Notes}

\* "if x > 0: x *= -1" and "if x < 0: x *= -1"
NonPositive(x) == IF x > 0 THEN 0 - x ELSE x
NonNegative(x) == IF x < 0 THEN 0 - x ELSE x

\* the two branches of allot that normalise the signs and check the portion
ExpenseBranch(R, amount) == amount # 0 /\ R.total < 0
IncomeBranch(R, amount, fee) ==
    ~ExpenseBranch(R, amount) /\ fee # 0 /\ R.total > 0

\* amount and fee as allot uses them after its sign handling
AllotAmount(R, amount, fee) ==
    IF ExpenseBranch(R, amount) THEN NonPositive(amount)
    ELSE IF IncomeBranch(R, amount, fee) THEN NonNegative(amount)
    ELSE amount

AllotFee(R, amount, fee) ==
    IF ExpenseBranch(R, amount) THEN NonPositive(fee)
    ELSE IF IncomeBranch(R, amount, fee) THEN NonNegative(fee)
    ELSE fee

\* the check that makes allot return a failure before it writes, "" when none
AllotError(R, in) ==
    LET a == AllotAmount(R, in.amount, in.fee)
        f == AllotFee(R, in.amount, in.fee)
        e == ExpenseBranch(R, in.amount)
        c == IncomeBranch(R, in.amount, in.fee)
    IN  IF in.amount = 0 /\ in.fee = 0 THEN "NothingToSplit"
        ELSE IF e /\ a + f < R.total THEN "SplitExceedsTotal"
        ELSE IF e /\ (a < R.amount \/ f < R.fee) THEN "SplitExceedsField"
        ELSE IF c /\ a + f > R.total THEN "SplitExceedsTotal"
        ELSE IF c /\ (a > R.amount \/ f > R.fee) THEN "SplitExceedsField"
        ELSE IF ~IsNa(R.allot) /\ R.allot # R.id THEN "AlreadySplitPiece"
        ELSE IF in.tags.kind = "str" THEN "TagsNotAList"
        ELSE ""

\* a variant of Reduced that forgets to take the fee off the original
ReducedKeepsFee(R, a, f) ==
    [R EXCEPT !.amount = R.amount - a,
              !.total = (R.amount - a) + R.fee,
              !.allot = R.id]

\* the original after "Update the original transaction"
Reduced(R, a, f) ==
    [R EXCEPT !.amount = R.amount - a,
              !.fee = R.fee - f,
              !.total = (R.amount - a) + (R.fee - f),
              !.allot = R.id]

\* the one-row DataFrame t
Piece(R, a, f, in) ==
    [BlankRow EXCEPT
        !.time = R.time,
        !.input = "manual",
        !.type = R.type,
        !.source = R.source,
        !.source_id = R.source_id,
        !.desc = R.desc,
        !.amount = a,
        !.fee = f,
        !.total = a + f,
        !.curr = R.curr,
        !.note = IF in.note = None THEN NA ELSE in.note,
        !.allot = R.id,
        !.piece = TRUE,
        !.category = IF in.category = None THEN R.category
                     ELSE add_new_category(in.category),
        !.tags = IF in.tags.kind = "none" THEN R.tags ELSE CanonTags(in.tags.v)]

Allot(i, in) ==
    LET R == df[i + 1]
        a == AllotAmount(R, in.amount, in.fee)
        f == AllotFee(R, in.amount, in.fee)
        err == AllotError(R, in)
        written == [df EXCEPT ![i + 1] = Reduced(R, a, f)]
        merged == written \o <<Piece(R, a, f, in)>>
        res == add_bulk(written, << <<Piece(R, a, f, in)>> >>)
        \* the checks up to and including the piece check passed
        vocabulary == err \in {"", "TagsNotAList"}
        call == [op |-> "allot", arg |-> in, before |-> df, i |-> i]
    IN  /\ Idle
        /\ i \in 0..(Len(df) - 1)
        /\ Len(df) < MaxRecords
        /\ UNCHANGED nEdits
        /\ categories' = IF vocabulary /\ in.category # None
                         THEN CategoriesAfter(categories, in.category)
                         ELSE categories
        /\ tags' = IF vocabulary /\ in.tags.kind = "list"
                   THEN TagsAfterAll(tags, in.tags.v) ELSE tags
        /\ IF err # ""
           THEN /\ df' = df
                /\ last' = call @@ [outcome |-> "fail", err |-> err,
                                    rpos |-> i + 1, ppos |-> 0]
           ELSE /\ df' = res.rows
                /\ last' = call @@
                     IF res.success
                     THEN [outcome |-> "ok", err |-> "",
                           rpos |-> SortPos(merged, i + 1),
                           ppos |-> SortPos(merged, Len(merged))]
                     ELSE [outcome |-> "fail", err |-> "AppendFailed",
                           rpos |-> i + 1, ppos |-> Len(merged)]

------------------------------------------------------------------------------
(* Transactions.link *)

\* a variant of LinksAmong that inspects the first target only
LinksAmongFirst(rows, list_i) ==
    {rows[list_i[1] + 1].link} \ {NaN}

\* self.search(list_i).dropna(subset=['link']).drop_duplicates(subset=['link']):
\* the distinct link values set on the rows labelled in list_i
LinksAmong(rows, list_i) ==
    {rows[list_i[k] + 1].link : k \in 1..Len(list_i)} \ {NaN}

\* a variant of LinkConflict that refuses targets that carry any link
LinkConflictAny(rows, list_i) == LinksAmong(rows, list_i) # {}

\* if len(df) > 1: the targets already have different links
LinkConflict(rows, list_i) == Cardinality(LinksAmong(rows, list_i)) > 1

\* a variant of LinkValue that always takes the id of the first target
LinkValueFirst(rows, list_i) == rows[list_i[1] + 1].id

\* a variant of LinkValue that draws a fresh number when no link is found
LinkValueFresh(rows, list_i) ==
    LET found == LinksAmong(rows, list_i)
    IN  IF Cardinality(found) = 1 THEN CHOOSE x \in found : TRUE
        ELSE MaxId(rows) + 1

\* the value link writes: the link found among the targets, or the id of the
\* first target
LinkValue(rows, list_i) ==
    LET found == LinksAmong(rows, list_i)
    IN  IF Cardinality(found) = 1 THEN CHOOSE x \in found : TRUE
        ELSE rows[list_i[1] + 1].id

\* a variant of LinkRows that starts its loop at the second target
LinkRowsTail(rows, list_i, id) ==
    [k \in 1..Len(rows) |->
        IF \E j \in 2..Len(list_i) : list_i[j] = k - 1
        THEN [rows[k] EXCEPT !.link = id]
        ELSE rows[k]]

\* for i in list_i: self._df.loc[i, 'link'] = int(id)
LinkRows(rows, list_i, id) ==
    [k \in 1..Len(rows) |->
        IF \E j \in 1..Len(list_i) : list_i[j] = k - 1
        THEN [rows[k] EXCEPT !.link = id]
        ELSE rows[k]]

\* Transactions.link on rows: how it ends and the rows it leaves
link(rows, list_i) ==
    IF Len(list_i) < 2
    THEN [outcome |-> "fail", err |-> "InsufficientTargets", rows |-> rows]
    ELSE IF LinkConflict(rows, list_i)
    THEN [outcome |-> "fail", err |-> "ConflictingLinks", rows |-> rows]
    ELSE IF IsNa(LinkValue(rows, list_i))
    THEN \* int(NaN) raises ValueError before anything is written
         [outcome |-> "raise", err |-> "ValueError", rows |-> rows]
    ELSE [outcome |-> "ok", err |-> "",
          rows |-> LinkRows(rows, list_i, LinkValue(rows, list_i))]

Link(list_i) ==
    LET res == link(df, list_i)
    IN  /\ Idle
        /\ \A k \in 1..Len(list_i) : list_i[k] \in 0..(Len(df) - 1)
        /\ df' = res.rows
        /\ last' = Call("link", res.outcome, res.err, list_i, df)
        /\ UNCHANGED <<categories, tags>>

\* the target lists tried on a store of n rows
LinkInputs(n) ==
    {<<0>>} \cup {<<i, j>> : i, j \in 0..(n - 1)} \cup {[k \in 1..n |-> k - 1]}

------------------------------------------------------------------------------
(* Transactions.update *)

\* rows with column col of the rows labelled in T set to val
SetCol(rows, T, col, val) ==
    [k \in 1..Len(rows) |->
        IF (k - 1) \in T THEN [rows[k] EXCEPT ![col] = val] ELSE rows[k]]

\* self._df.loc[i, 'time'] = time. A datetime64 column parses the text of a
\* date; a text that is no date turns the column into an object column, and an
\* object column keeps any text as str.
TimeCell(rows, t) ==
    IF t.bad THEN BadTime
    ELSE IF \E k \in 1..Len(rows) : ~rows[k].time.ts THEN StrTime(t.v)
    ELSE TS(t.v)

\* a variant of Retotal that leaves the total column as it was
RetotalStale(rows, T) == rows

\* self._df.loc[i, 'total'] = self._df.loc[i]['amount'] + self._df.loc[i]['fee']
Retotal(rows, T) ==
    [k \in 1..Len(rows) |->
        IF (k - 1) \in T
        THEN [rows[k] EXCEPT !.total = rows[k].amount + rows[k].fee]
        ELSE rows[k]]

NoUpdate ==
    [index |-> <<>>, search_result |-> <<>>, time |-> <<>>, type |-> None,
     source |-> None, description |-> None, amount |-> <<>>, fee |-> <<>>,
     note |-> None, system |-> None, category |-> None, tags |-> NoTags,
     overwrite_tags |-> TRUE]

\* the field values tried; the targets are added by UpdateInputs
UpdateFields ==
    { [NoUpdate EXCEPT !.time = <<[bad |-> FALSE, v |-> 3]>>],
      [NoUpdate EXCEPT !.time = <<[bad |-> TRUE, v |-> 0]>>],
      [NoUpdate EXCEPT !.source = "Broker", !.type = "CASH", !.amount = <<0 - 60>>],
      [NoUpdate EXCEPT !.amount = <<70>>, !.fee = <<0>>, !.note = "fixed"],
      [NoUpdate EXCEPT !.tags = TagList(<<"gift">>), !.overwrite_tags = FALSE],
      [NoUpdate EXCEPT !.type = "CASH"] }

\* index as a list of labels <<"list", l>>, as an int <<"int", n>>, or omitted;
\* search_result as the labels of the DataFrame passed, or omitted
UpdateTargets(n) ==
    { [index |-> <<"list", <<i>>>>, search_result |-> <<>>] : i \in 0..(n - 1) }
        \cup { [index |-> <<"list", [k \in 1..n |-> k - 1]>>, search_result |-> <<>>] }

OtherTargets(n) ==
    { [index |-> <<"int", n - 1>>, search_result |-> <<>>],
      [index |-> <<>>, search_result |-> <<>>],
      [index |-> <<>>, search_result |-> << <<n - 1>> >>],
      [index |-> <<>>, search_result |-> << <<>> >>],
      [index |-> <<"list", <<0>>>>, search_result |-> << <<0>> >>] }

UpdateInputs(n) ==
    { [f EXCEPT !.index = t.index, !.search_result = t.search_result] :
        f \in UpdateFields, t \in UpdateTargets(n) }
    \cup
    { [NoUpdate EXCEPT !.note = "fixed",
                       !.index = t.index, !.search_result = t.search_result] :
        t \in OtherTargets(n) }

\* the labels update works on (the list i), when it gets that far
Targets(in) ==
    IF in.index # <<>>
    THEN IF in.index[1] = "int" THEN {in.index[2]}
         ELSE {in.index[2][k] : k \in 1..Len(in.index[2])}
    ELSE {in.search_result[1][k] : k \in 1..Len(in.search_result[1])}

\* the early returns and the exception of the target handling, "" when none
TargetError(in) ==
    IF in.index = <<>> /\ in.search_result = <<>> THEN "AmbiguousTarget"
    ELSE IF in.index # <<>> /\ in.search_result # <<>> THEN "AmbiguousTarget"
    ELSE IF in.index # <<>> /\ in.index[1] = "int" /\ ~(in.index[2] > 0)
         THEN "UnboundLocalError"
    ELSE IF in.index = <<>> /\ Targets(in) = {} THEN "EmptySearch"
    ELSE ""

Update(in) ==
    LET T == Targets(in)
        err == TargetError(in)
        r1 == IF in.time # <<>>
              THEN SetCol(df, T, "time", TimeCell(df, in.time[1])) ELSE df
        r2 == SetCol(r1, T, "input", "updated")
        r3 == IF in.type # None THEN SetCol(r2, T, "desc", in.type) ELSE r2
        src == FindSource(in.source)
        unknown == in.source # None /\ src = 0
        r4 == IF in.source # None
              THEN SetCol(SetCol(r3, T, "source", sources[src].name),
                          T, "source_id", sources[src].id)
              ELSE r3
        r5 == IF in.description # None
              THEN SetCol(r4, T, "desc", in.description) ELSE r4
        r6 == IF in.amount # <<>> THEN SetCol(r5, T, "amount", in.amount[1]) ELSE r5
        r7 == IF in.fee # <<>> THEN SetCol(r6, T, "fee", in.fee[1]) ELSE r6
        r8 == IF in.amount # <<>> \/ in.fee # <<>> THEN Retotal(r7, T) ELSE r7
        r9 == IF in.note # None THEN SetCol(r8, T, "note", in.note) ELSE r8
        r10 == IF in.system # None THEN SetCol(r9, T, "system", in.system) ELSE r9
        r11 == IF in.category # None
               THEN SetCol(r10, T, "category", add_new_category(in.category))
               ELSE r10
        \* the lambda of the tags branch reads r['tags'] of a str or a float
        \* unless overwrite_tags short-circuits the test: TypeError
        merge == in.tags.kind # "none" /\ ~in.overwrite_tags /\ T # {}
        r12 == IF in.tags.kind # "none"
               THEN SetCol(r11, T, "tags", CanonTags(in.tags.v)) ELSE r11
    IN  /\ Idle
        /\ IF err # ""
           THEN /\ UNCHANGED <<df, categories, tags>>
                /\ last' = Call("update",
                                IF err = "UnboundLocalError" THEN "raise" ELSE "fail",
                                err, in, df)
           ELSE
           /\ T \subseteq 0..(Len(df) - 1)
           /\ IF unknown
              THEN \* source_obj is None: source_obj.name raises AttributeError
                   /\ df' = r3
                   /\ UNCHANGED <<categories, tags>>
                   /\ last' = Call("update", "raise", "UnknownSource", in, df)
              ELSE /\ categories' = IF in.category # None
                                    THEN CategoriesAfter(categories, in.category)
                                    ELSE categories
                   /\ tags' = IF in.tags.kind # "none"
                              THEN TagsAfterAll(tags, in.tags.v) ELSE tags
                   /\ IF merge
                      THEN /\ df' = r11
                           /\ last' = Call("update", "raise", "TypeError", in, df)
                      ELSE /\ df' = r12
                           /\ last' = Call("update", "ok", "", in, df)

------------------------------------------------------------------------------

(* Config: the registry is reloaded, shortened and saved *)

\* Config(...) called again: the singleton reads config.json anew and replaces
\* the two lists
Reconfigure ==
    /\ Idle
    /\ categories' = Config(disk).categories
    /\ tags' = Config(disk).tags
    /\ last' = Call("Config", "ok", "", <<>>, df)
    /\ UNCHANGED <<df, columns, disk, clock, sources>>

\* Config.del_category: list.remove raises ValueError for a name not in the list
DelCategory(category) ==
    /\ Idle
    /\ categories' = categories \ {category}
    /\ last' = IF category \in categories
               THEN Call("del_category", "ok", "", category, df)
               ELSE Call("del_category", "raise", "ValueError", category, df)
    /\ UNCHANGED <<df, tags, columns, disk, clock, sources>>

\* Config.del_tag
DelTag(tag) ==
    /\ Idle
    /\ tags' = tags \ {tag}
    /\ last' = IF tag \in tags
               THEN Call("del_tag", "ok", "", tag, df)
               ELSE Call("del_tag", "raise", "ValueError", tag, df)
    /\ UNCHANGED <<df, categories, columns, disk, clock, sources>>

\* Config.save: the two lists as they stand are written to config.json
ConfigSave ==
    /\ Idle
    /\ disk' = Written(disk, ConfigFile,
                       [categories |-> categories, tags |-> tags])
    /\ last' = Call("Config.save", "ok", "", ConfigFile, df)
    /\ UNCHANGED <<df, categories, tags, columns, clock, sources>>

\* the names del_category and del_tag are called with
DelCategories == {"Food", "Gift"}
DelTags == {"Home", "Gift"}

------------------------------------------------------------------------------

(* Sources: the registry is extended, cleared, reloaded, saved and copied *)

\* Sources.save: the registry is written to sources.json; open raises when
\* the file cannot be written
SourcesSave(writable) ==
    /\ Idle
    /\ disk' = IF writable THEN Written(disk, SourcesFile, sources) ELSE disk
    /\ last' = Call("Sources.save", IF writable THEN "ok" ELSE "raise",
                      IF writable THEN "" ELSE "OSError", SourcesFile, df)
    /\ UNCHANGED <<df, categories, tags, columns, clock, sources>>

\* Sources.backup: the registry is written to a file named from the clock
SourcesBackup(writable) ==
    /\ Idle
    /\ disk' = IF writable
               THEN Written(disk, Path("sources_", datetime_for_filename, "csv"),
                            sources)
               ELSE disk
    /\ last' = Call("Sources.backup", IF writable THEN "ok" ELSE "raise",
                      IF writable THEN "" ELSE "OSError",
                      Path("sources_", datetime_for_filename, "csv"), df)
    /\ UNCHANGED <<df, categories, tags, columns, clock, sources>>

\* Sources.add_source: a source whose name is registered is refused; else the
\* source is appended and the registry saved. When open raises inside save
\* the source has been appended already.
AddSource(src, writable) ==
    /\ Idle
    /\ IF \E k \in 1..Len(sources) : sources[k].name = src.name
       THEN /\ last' = Call("add_source", "raise", "SourcesException", src, df)
            /\ UNCHANGED <<sources, disk>>
       ELSE /\ sources' = Append(sources, src)
            /\ disk' = IF writable
                       THEN Written(disk, SourcesFile, Append(sources, src))
                       ELSE disk
            /\ last' = Call("add_source", IF writable THEN "ok" ELSE "raise",
                              IF writable THEN "" ELSE "OSError", src, df)
    /\ UNCHANGED <<df, categories, tags, columns, clock>>

\* Sources.reset: backup, then the registry is cleared. When open raises
\* inside backup the registry is left as it was.
SourcesReset(writable) ==
    /\ Idle
    /\ IF writable
       THEN /\ disk' = Written(disk, Path("sources_", datetime_for_filename, "csv"),
                               sources)
            /\ sources' = <<>>
            /\ last' = Call("Sources.reset", "ok", "",
                              Path("sources_", datetime_for_filename, "csv"), df)
       ELSE /\ last' = Call("Sources.reset", "raise", "OSError",
                              Path("sources_", datetime_for_filename, "csv"), df)
            /\ UNCHANGED <<sources, disk>>
    /\ UNCHANGED <<df, categories, tags, columns, clock>>

\* Sources(cfg) called again: the singleton reads sources.json anew
SourcesLoad ==
    /\ Idle
    /\ sources' = load_sources(disk)
    /\ last' = Call("Sources", "ok", "", SourcesFile, df)
    /\ UNCHANGED <<df, categories, tags, columns, disk, clock>>

\* the sources add_source is called with: a new one and a registered name
NewSources ==
    { [name |-> "Broker", id |-> 3, currency |-> "USD"],
      [name |-> "Cash", id |-> 2, currency |-> "EUR"] }

------------------------------------------------------------------------------

\* one more of the MaxEdits calls of link, update and the registry that a
\* behaviour holds
Edit == nEdits < MaxEdits /\ nEdits' = nEdits + 1

Next ==
    \/ \E in \in AddInputs : Add(in) /\ NoFiles
    \/ \E new_dfs \in BulkInputs : AddBulk(new_dfs) /\ NoFiles
    \/ \E i \in 0..(MaxRecords - 1), in \in AllotInputs : Allot(i, in) /\ NoFiles
    \/ \E list_i \in LinkInputs(Len(df)) : Edit /\ Link(list_i) /\ NoFiles
    \/ \E in \in UpdateInputs(Len(df)) : Edit /\ Update(in) /\ NoFiles
    \/ Edit /\ Reconfigure
    \/ \E category \in DelCategories : Edit /\ DelCategory(category)
    \/ \E tag \in DelTags : Edit /\ DelTag(tag)
    \/ Edit /\ ConfigSave
    \/ \E src \in NewSources, writable \in BOOLEAN : Edit /\ AddSource(src, writable)
    \/ \E writable \in BOOLEAN : Edit /\ SourcesReset(writable)
    \/ Edit /\ SourcesLoad
    \/ Return

Spec == Init /\ [][Next]_vars

------------------------------------------------------------------------------
(* Transactions.link alone, called any number of times on one persisted table *)

\* a table saved earlier: three records with ids 3, 7 and 9, none linked
Ledger ==
    << [Rent EXCEPT !.id = 3], [Shop EXCEPT !.id = 7],
       Imported(9, 3, "TRANSFER", 1, "wage", 100, 0 - 5) >>

LinkInit ==
    /\ df = Ledger
    /\ categories = {"Food"}
    /\ tags = {"Home"}
    /\ last = NoCall
    /\ nEdits = 0
    /\ columns = headers
    /\ disk = Stored(df, {"food"}, {"home"})
    /\ clock = 0
    /\ sources = load_sources(disk)

LinkNext ==
    \/ \E list_i \in LinkInputs(Len(df)) :
          Link(list_i) /\ UNCHANGED nEdits /\ NoFiles
    \/ Return

SpecLink == LinkInit /\ [][LinkNext]_vars

------------------------------------------------------------------------------
(* link, allot, add and add_bulk in any order and any number of times, on a *)
(* store that holds no link when it starts                                  *)

GroupsNext ==
    \/ \E in \in AddInputs : Add(in) /\ NoFiles
    \/ \E new_dfs \in BulkInputs : AddBulk(new_dfs) /\ NoFiles
    \/ \E i \in 0..(MaxRecords - 1), in \in AllotInputs : Allot(i, in) /\ NoFiles
    \/ \E list_i \in LinkInputs(Len(df)) :
          Link(list_i) /\ UNCHANGED nEdits /\ NoFiles
    \/ Return

SpecGroups == Init /\ [][GroupsNext]_vars

------------------------------------------------------------------------------
(* Transactions.search *)

\* A result: the marker None, a DataFrame given by the labels of its rows in
\* their order (a label twice is a row held twice), or an exception.
NoFilter == [kind |-> "none", v |-> <<>>]
Found(sel) == [kind |-> "rows", v |-> sel]
Raised == [kind |-> "raise", v |-> <<>>]

\* the arguments of search, all omitted
NoQuery ==
    [index |-> <<>>, start_date |-> <<>>, end_date |-> <<>>, type |-> None,
     source |-> None, description |-> None, total |-> <<>>, currency |-> None,
     note |-> None, system |-> None,
     categories |-> [kind |-> "none", s |-> "", l |-> <<>>],
     tags |-> [kind |-> "none", s |-> "", l |-> <<>>, n |-> 0]]

CatStr(c) == [kind |-> "str", s |-> c, l |-> <<>>]
CatList(l) == [kind |-> "list", s |-> "", l |-> l]
TagStr(t) == [kind |-> "str", s |-> t, l |-> <<>>, n |-> 0]
TagNames(l) == [kind |-> "list", s |-> "", l |-> l, n |-> 0]
TagCount(n) == [kind |-> "int", s |-> "", l |-> <<>>, n |-> n]

\* the labels of all rows: s_df = self._df
AllLabels(rows) == [k \in 1..Len(rows) |-> k - 1]

\* s_df[mask]: the rows of sel the boolean mask holds for, in their order
Keep(rows, sel, mask) == SelectSeq(sel, LAMBDA l : mask[rows[l + 1]])

\* Series.str.contains(pat, case=False) on one text. The texts and patterns
\* of the model are whole names, none part of another, so a text contains a
\* pattern when they are the same name up to case; every text contains "".
Contains(text, pat) == pat = "" \/ Lower(text) = Lower(pat)

\* the same on a tags cell, the names of the row joined by commas
TagsContain(row, pat) ==
    pat = "" \/ \E j \in 1..Len(row.tags) : Lower(row.tags[j]) = Lower(pat)

\* Series.str.count(',') + 1 on a tags cell
TagsCounted(row) == IF Len(row.tags) = 0 THEN 1 ELSE Len(row.tags)

\* the day of a time, as dt.strftime('%Y-%m-%d') gives it: the instants of
\* the model are one day apart
DayOf(time) == time.v

\* pd.concat(findings): one finding after the other
RECURSIVE Concat(_)
Concat(findings) ==
    IF findings = <<>> THEN <<>> ELSE Head(findings) \o Concat(Tail(findings))

\* INDEX: s_df.loc[[index]] or s_df.loc[index]
ByIndex(rows, sel, q) ==
    IF q.index = <<>> THEN sel
    ELSE IF q.index[1] = "int" THEN <<q.index[2]>>
    ELSE q.index[2]

\* DATE: the day start_date, or the days from start_date to end_date; an
\* end_date without a start_date selects nothing
ByDate(rows, sel, q) ==
    IF q.start_date = <<>> THEN sel
    ELSE IF q.end_date = <<>>
    THEN Keep(rows, sel, [r \in Elems(rows) |-> DayOf(r.time) = q.start_date[1].d])
    ELSE Keep(rows, sel, [r \in Elems(rows) |-> /\ DayOf(r.time) >= q.start_date[1].d
                                    /\ DayOf(r.time) <= q.end_date[1].d])

\* TYPE
ByType(rows, sel, q) ==
    IF q.type = None THEN sel
    ELSE IF q.type = "*" THEN Keep(rows, sel, [r \in Elems(rows) |-> r.type # NA])
    ELSE Keep(rows, sel, [r \in Elems(rows) |-> r.type = q.type])

\* SOURCE
BySource(rows, sel, q) ==
    IF q.source = None THEN sel
    ELSE Keep(rows, sel,
              [r \in Elems(rows) |-> r.source_id = sources[FindSource(q.source)].id])

\* DESCRIPTION
ByDescription(rows, sel, q) ==
    IF q.description = None THEN sel
    ELSE IF q.description = "*" THEN Keep(rows, sel, [r \in Elems(rows) |-> r.desc # NA])
    ELSE Keep(rows, sel,
              [r \in Elems(rows) |-> r.desc # NA /\ Contains(r.desc, q.description)])

\* TOTAL
ByTotal(rows, sel, q) ==
    IF q.total = <<>> THEN sel
    ELSE Keep(rows, sel, [r \in Elems(rows) |-> r.total = q.total[1]])

\* CURRENCY
ByCurrency(rows, sel, q) ==
    IF q.currency = None THEN sel
    ELSE Keep(rows, sel, [r \in Elems(rows) |-> r.curr = q.currency])

\* NOTE
ByNote(rows, sel, q) ==
    IF q.note = None THEN sel
    ELSE IF q.note = "*" THEN Keep(rows, sel, [r \in Elems(rows) |-> r.note # NA])
    ELSE Keep(rows, sel, [r \in Elems(rows) |-> r.note # NA /\ Contains(r.note, q.note)])

\* SYSTEM CATEGORY
BySystem(rows, sel, q) ==
    IF q.system = None THEN sel
    ELSE IF q.system = "" THEN Keep(rows, sel, [r \in Elems(rows) |-> r.system = NA])
    ELSE IF q.system = "*" THEN Keep(rows, sel, [r \in Elems(rows) |-> r.system # NA])
    ELSE Keep(rows, sel, [r \in Elems(rows) |-> r.system = q.system])

\* findings = [s_df.loc[s_df['category'].str.contains(cat, case=False)] ...]
CategoryFindings(rows, sel, l) ==
    [j \in 1..Len(l) |->
        Keep(rows, sel, [r \in Elems(rows) |-> r.category # NA /\ Contains(r.category, l[j])])]

\* CATEGORY
ByCategory(rows, sel, q) ==
    LET c == q.categories
    IN  IF c.kind = "none" THEN sel
        ELSE IF c.kind = "str" /\ c.s = ""
        THEN Keep(rows, sel, [r \in Elems(rows) |-> r.category = NA])
        ELSE IF c.kind = "str" /\ c.s = "*"
        THEN Keep(rows, sel, [r \in Elems(rows) |-> r.category # NA])
        ELSE IF c.kind = "str"
        THEN Keep(rows, sel, [r \in Elems(rows) |-> r.category = Canon(c.s)])
        ELSE Concat(CategoryFindings(rows, sel, c.l))

\* a variant of TagFindings that looks the names up in the whole table
TagFindingsAll(rows, sel, l) ==
    [j \in 1..Len(l) |->
        Keep(rows, AllLabels(rows),
             [r \in Elems(rows) |-> r.tags # NATags /\ TagsContain(r, l[j])])]

\* findings = [s_df.loc[s_df['tags'].str.contains(t, case=False)] for t in tags]
TagFindings(rows, sel, l) ==
    [j \in 1..Len(l) |->
        Keep(rows, sel, [r \in Elems(rows) |-> r.tags # NATags /\ TagsContain(r, l[j])])]

\* TAGS
ByTags(rows, sel, q) ==
    LET t == q.tags
    IN  IF t.kind = "none" THEN sel
        ELSE IF t.kind = "str" /\ t.s = ""
        THEN Keep(rows, sel, [r \in Elems(rows) |-> r.tags = NATags])
        ELSE IF t.kind = "list" THEN Concat(TagFindings(rows, sel, t.l))
        ELSE IF t.kind = "str" /\ t.s = "*"
        THEN Keep(rows, sel, [r \in Elems(rows) |-> r.tags # NATags])
        ELSE IF t.kind = "str"
        THEN Keep(rows, sel, [r \in Elems(rows) |-> r.tags # NATags /\ TagsContain(r, t.s)])
        ELSE Keep(rows, sel,
                  [r \in Elems(rows) |-> r.tags # NATags /\ TagsCounted(r) = t.n])

\* the exceptions of search: a label that is no row, a date that is no
\* yyyy-mm-dd, the .dt accessor on a time column that holds a str, a source, a
\* category or a tag that is not registered, pd.concat of no finding, a tags
\* count that is not positive
SearchRaises(rows, cats, tgs, q) ==
    \/ /\ q.index # <<>>
       /\ \E l \in Elems(ByIndex(rows, <<>>, q)) : l \notin 0..(Len(rows) - 1)
    \/ q.start_date # <<>> /\ ~q.start_date[1].ok
    \/ q.end_date # <<>> /\ ~q.end_date[1].ok
    \/ q.start_date # <<>> /\ \E k \in 1..Len(rows) : ~rows[k].time.ts
    \/ q.source # None /\ FindSource(q.source) = 0
    \/ /\ q.categories.kind = "str"
       /\ q.categories.s \notin {"", "*"}
       /\ Canon(q.categories.s) \notin cats
    \/ /\ q.categories.kind = "list"
       /\ \/ q.categories.l = <<>>
          \/ \E c \in Elems(q.categories.l) : Canon(c) \notin cats
    \/ /\ q.tags.kind = "list"
       /\ \/ q.tags.l = <<>>
          \/ \E t \in Elems(q.tags.l) : Canon(t) \notin tgs
    \/ q.tags.kind = "int" /\ ~(q.tags.n > 0)

\* no argument made search replace s_df: s_df is self._df
Untouched(q) ==
    /\ q.index = <<>> /\ q.start_date = <<>> /\ q.type = None
    /\ q.source = None /\ q.description = None /\ q.total = <<>>
    /\ q.currency = None /\ q.note = None /\ q.system = None
    /\ q.categories.kind = "none" /\ q.tags.kind = "none"

\* Transactions.search on rows with the vocabulary cats, tgs
search(rows, cats, tgs, q) ==
    IF SearchRaises(rows, cats, tgs, q) THEN Raised
    ELSE IF Untouched(q) THEN NoFilter
    ELSE Found(
        ByTags(rows,
         ByCategory(rows,
          BySystem(rows,
           ByNote(rows,
            ByCurrency(rows,
             ByTotal(rows,
              ByDescription(rows,
               BySource(rows,
                ByType(rows,
                 ByDate(rows,
                  ByIndex(rows, AllLabels(rows), q),
                 q), q), q), q), q), q), q), q), q), q))

------------------------------------------------------------------------------
(* Transactions.search alone, on a persisted table with categories and tags *)

\* a table saved earlier; its categories and tags are registered when it is
\* loaded
Archive ==
    << [Rent EXCEPT !.id = 1, !.category = "Food", !.tags = <<"Home", "Gift">>,
                    !.note = "gift"],
       [Shop EXCEPT !.id = 2],
       [Imported(3, 3, "TRANSFER", 1, "wage", 100, 0 - 5)
            EXCEPT !.category = "Food", !.tags = <<"Gift">>],
       [Imported(4, 4, "CASH", 2, "shop", 0 - 50, 0)
            EXCEPT !.category = "Gift", !.tags = <<"Home">>] >>

Day(d) == <<[ok |-> TRUE, d |-> d]>>
NoDay == <<[ok |-> FALSE, d |-> 0]>>

\* the queries with one argument other than categories and tags
PlainQueries ==
    { [NoQuery EXCEPT !.index = <<"int", 0>>],
      [NoQuery EXCEPT !.index = <<"list", <<0, 1>>>>],
      [NoQuery EXCEPT !.index = <<"list", <<5>>>>],
      [NoQuery EXCEPT !.start_date = Day(1)],
      [NoQuery EXCEPT !.start_date = Day(1), !.end_date = Day(2)],
      [NoQuery EXCEPT !.start_date = NoDay],
      [NoQuery EXCEPT !.end_date = Day(2)],
      [NoQuery EXCEPT !.type = "CARD"],
      [NoQuery EXCEPT !.type = "*"],
      [NoQuery EXCEPT !.source = "bank"],
      [NoQuery EXCEPT !.source = "Broker"],
      [NoQuery EXCEPT !.description = "rent"],
      [NoQuery EXCEPT !.description = "*"],
      [NoQuery EXCEPT !.total = <<0 - 120>>],
      [NoQuery EXCEPT !.currency = "PLN"],
      [NoQuery EXCEPT !.note = "gift"],
      [NoQuery EXCEPT !.note = "*"],
      [NoQuery EXCEPT !.system = ""] }

CategoryArgs ==
    { NoQuery.categories, CatStr(""), CatStr("*"), CatStr("food"),
      CatStr("Gift"), CatStr("Home"), CatList(<<"Food", "Gift">>),
      CatList(<<"food", "Food">>) }

TagArgs ==
    { NoQuery.tags, TagStr(""), TagStr("*"), TagStr("home"),
      TagNames(<<"Home">>), TagNames(<<"Gift">>), TagNames(<<"home", "gift">>),
      TagCount(1), TagCount(2), TagCount(0) }

Queries ==
    PlainQueries
        \cup { [NoQuery EXCEPT !.categories = c, !.tags = t] :
                 c \in CategoryArgs, t \in TagArgs }

SearchInit ==
    /\ df \in {Archive, SubSeq(Archive, 1, 2)}
    /\ categories = {"Food", "Gift"}
    /\ tags = {"Gift", "Home"}
    /\ last = NoCall
    /\ nEdits = 0
    /\ columns = headers
    /\ disk = Stored(df, {"food", "GIFT"}, {"gift", "home"})
    /\ clock = 0
    /\ sources = load_sources(disk)

Search(q) ==
    LET res == search(df, categories, tags, q)
    IN  /\ Idle
        /\ last' = Call("search", IF res.kind = "raise" THEN "raise" ELSE "ok",
                        "", q, df) @@ [result |-> res]
        /\ UNCHANGED <<df, categories, tags, nEdits>>

SearchNext ==
    \/ \E q \in Queries : Search(q) /\ NoFiles
    \/ Return

SpecSearch == SearchInit /\ [][SearchNext]_vars

------------------------------------------------------------------------------
(* Transactions.__init__, save, backup and reset: the store and its files *)

MaxClock == 1

\* str(c) of a cell of the category column, str(line).split(',') of a tags cell
Str(c) == IF c = NA THEN "nan" ELSE c
Split(line) == IF line = NATags THEN <<"nan">> ELSE line

\* the vocabulary after the constructor registered what the rows carry
RECURSIVE RegisteredCategories(_, _)
RegisteredCategories(cats, rows) ==
    IF rows = <<>> THEN cats
    ELSE RegisteredCategories(CategoriesAfter(cats, Str(Head(rows).category)),
                              Tail(rows))

RECURSIVE RegisteredTags(_, _)
RegisteredTags(tgs, rows) ==
    IF rows = <<>> THEN tgs
    ELSE RegisteredTags(TagsAfterAll(tgs, Split(Head(rows).tags)), Tail(rows))

\* Transactions.__init__ on the directory d with the vocabulary cats, tgs: how
\* it ends, and the table, column list and vocabulary it leaves. A header that
\* differs from Config.headers() raises TransactionsException inside the try;
\* the handler prints it and the constructor goes on with the table read. The
\* statements that follow read the columns time, allot, link, category and
\* tags in this order; the first one that is missing raises KeyError and
\* leaves what the statements before it have done.
load(d, cats, tgs) ==
    IF Canonical \notin DOMAIN d
    THEN [outcome |-> "ok", err |-> "", columns |-> headers, rows |-> <<>>,
          categories |-> cats, tags |-> tgs]
    ELSE LET file == d[Canonical]
             cols == Elems(file.header)
             timed == [k \in 1..Len(file.lines) |->
                         [file.lines[k] EXCEPT !.time = TS(@.v)]]
             registered == RegisteredCategories(cats, timed)
             Raise(err, rows, c) ==
                 [outcome |-> "raise", err |-> err, columns |-> file.header,
                  rows |-> rows, categories |-> c, tags |-> tgs]
         IN  IF "time" \notin cols
             THEN Raise("KeyError", file.lines, cats)
             ELSE IF \E k \in 1..Len(file.lines) : file.lines[k].time.bad
             THEN \* pd.to_datetime cannot parse the text
                  Raise("ValueError", file.lines, cats)
             ELSE IF "allot" \notin cols \/ "link" \notin cols
                     \/ "category" \notin cols
             THEN Raise("KeyError", timed, cats)
             ELSE IF "tags" \notin cols
             THEN Raise("KeyError", timed, registered)
             ELSE [outcome |-> "ok",
                   err |-> IF file.header # headers THEN "CorruptStore" ELSE "",
                   columns |-> file.header, rows |-> timed,
                   categories |-> registered,
                   tags |-> RegisteredTags(tgs, timed)]

\* Transactions(cfg, sources) called again: the singleton is initialised anew.
\* When the constructor raises, the object the callers hold keeps what it had
\* assigned so far.
Load ==
    LET res == load(disk, categories, tags)
    IN  /\ Idle
        /\ df' = res.rows
        /\ columns' = res.columns
        /\ categories' = res.categories
        /\ tags' = res.tags
        /\ last' = Call("load", res.outcome, res.err, Canonical, df)
        /\ UNCHANGED <<nEdits, disk, clock, sources>>

\* Transactions.save; writable is whether to_csv can write the file
Save(writable) ==
    /\ Idle
    /\ disk' = IF writable THEN Written(disk, SaveFile, to_csv(columns, df))
               ELSE disk
    /\ last' = Call("save", IF writable THEN "ok" ELSE "fail", "", SaveFile, df)
    /\ UNCHANGED <<df, categories, tags, nEdits, columns, clock, sources>>

\* the directory after Transactions.backup
backup(d, cols, rows, writable) ==
    IF writable
    THEN Written(d, Path("transactions_", datetime_for_filename, "csv"),
                 to_csv(cols, rows))
    ELSE d

Backup(writable) ==
    /\ Idle
    /\ disk' = backup(disk, columns, df, writable)
    /\ last' = Call("backup", IF writable THEN "ok" ELSE "fail", "",
                    Path("transactions_", datetime_for_filename, "csv"), df)
               @@ [disk |-> disk]
    /\ UNCHANGED <<df, categories, tags, nEdits, columns, clock, sources>>

\* Transactions.reset: the result of backup is dropped
Reset(writable) ==
    /\ Idle
    /\ disk' = backup(disk, columns, df, writable)
    /\ df' = <<>>
    /\ columns' = headers
    /\ last' = Call("reset", "ok", "",
                    Path("transactions_", datetime_for_filename, "csv"), df)
               @@ [disk |-> disk]
    /\ UNCHANGED <<categories, tags, nEdits, clock, sources>>

\* a second passes
Tick ==
    /\ Idle
    /\ clock < MaxClock
    /\ clock' = clock + 1
    /\ UNCHANGED <<df, categories, tags, last, nEdits, columns, disk, sources>>

\* the column list after add_bulk: the first batch replaces an empty table,
\* pd.concat appends the columns the table lacks to those it has
BulkColumns(cols, rows, new_dfs) ==
    IF new_dfs = <<>> THEN cols
    ELSE IF rows = <<>> THEN headers
    ELSE cols \o SelectSeq(headers, LAMBDA c : c \notin Elems(cols))

------------------------------------------------------------------------------
(* system.py: the maintenance scripts that rewrite transactions.csv *)

\* the local list headers of db_columns_update: Config.headers() without
\* allot and link
update_headers == SelectSeq(headers, LAMBDA c : c \notin {"allot", "link"})

\* Every script starts with Config('../data/db'): the singleton reads
\* config.json anew and replaces the two lists, before the script opens
\* transactions.csv.

\* what a script leaves in last
Script(op, outcome, err, arg) == Call(op, outcome, err, arg, df)

\* system.db_columns_update: the file is rewritten with the columns of the
\* local list; the cells of the other columns are dropped
DbColumnsUpdate ==
    /\ Idle
    /\ IF Canonical \notin DOMAIN disk
       THEN /\ last' = Script("db_columns_update", "raise", "FileNotFoundError", <<>>)
            /\ UNCHANGED disk
       ELSE /\ disk' = Written(disk, Canonical,
                          [header |-> update_headers,
                           lines |-> [k \in 1..Len(disk[Canonical].lines) |->
                                        Blank(update_headers, disk[Canonical].lines[k])]])
            /\ last' = Script("db_columns_update", "ok", "", <<>>)
    /\ categories' = Config(disk).categories
    /\ tags' = Config(disk).tags
    /\ UNCHANGED <<df, columns, clock, sources>>

\* system.migrate_colum: column col_a is copied to column col_b, which is
\* appended to the header when the file has no such column
MigrateColum(col_a, col_b) ==
    /\ Idle
    /\ IF Canonical \notin DOMAIN disk
       THEN /\ last' = Script("migrate_colum", "raise", "FileNotFoundError", <<col_a, col_b>>)
            /\ UNCHANGED disk
       ELSE IF col_a \notin Elems(disk[Canonical].header)
       THEN /\ last' = Script("migrate_colum", "raise", "KeyError", <<col_a, col_b>>)
            /\ UNCHANGED disk
       ELSE /\ disk' = Written(disk, Canonical,
                          [header |-> IF col_b \in Elems(disk[Canonical].header)
                                      THEN disk[Canonical].header
                                      ELSE disk[Canonical].header \o <<col_b>>,
                           lines |-> [k \in 1..Len(disk[Canonical].lines) |->
                                        [disk[Canonical].lines[k] EXCEPT
                                           ![col_b] = disk[Canonical].lines[k][col_a]]]])
            /\ last' = Script("migrate_colum", "ok", "", <<col_a, col_b>>)
    /\ categories' = Config(disk).categories
    /\ tags' = Config(disk).tags
    /\ UNCHANGED <<df, columns, clock, sources>>

\* system.set_id: the backfill loop of add_bulk, run on the file
SetId ==
    /\ Idle
    /\ IF Canonical \notin DOMAIN disk
       THEN /\ last' = Script("set_id", "raise", "FileNotFoundError", <<>>)
            /\ UNCHANGED disk
       ELSE /\ disk' = Written(disk, Canonical,
                          [header |-> disk[Canonical].header,
                           lines |-> Backfill(disk[Canonical].lines, 1)])
            /\ last' = Script("set_id", "ok", "", <<>>)
    /\ categories' = Config(disk).categories
    /\ tags' = Config(disk).tags
    /\ UNCHANGED <<df, columns, clock, sources>>

\* the pairs of columns migrate_colum is run with
MigrateInputs == { <<"system_cat", "system">>, <<"desc", "note">> }

------------------------------------------------------------------------------
(* The store and its files together *)

\* a header that migrate_colum('system_cat', 'system') leaves behind: the
\* canonical columns and the old one
Legacy == headers \o <<"system_cat">>

\* the directories the first construction may find
Directories ==
    { Stored(<<>>, {"food"}, {"home"}),
      Stored(<< [Rent EXCEPT !.id = 1] >>, {"food"}, {"home"}),
      Written(Stored(<<>>, {"food"}, {"home"}), Canonical,
              to_csv(Legacy, << [Shop EXCEPT !.id = 2, !.system_cat = "fixed"] >>)) }

\* Config(config_dir) and then Transactions(cfg, sources) on the directory d
Constructed(d) == load(d, Config(d).categories, Config(d).tags)

FilesInit ==
    /\ disk \in Directories
    /\ df = Constructed(disk).rows
    /\ columns = Constructed(disk).columns
    /\ categories = Constructed(disk).categories
    /\ tags = Constructed(disk).tags
    /\ last = NoCall
    /\ nEdits = 0
    /\ clock = 0
    /\ sources = load_sources(disk)

\* the list of batches handed to add_bulk between the file operations
FileBatches == { << <<Shop>>, <<Wage>> >> }

FilesNext ==
    \/ \E new_dfs \in FileBatches :
          /\ AddBulk(new_dfs)
          /\ columns' = BulkColumns(columns, df, new_dfs)
          /\ UNCHANGED <<disk, clock, sources>>
    \/ Load
    \/ \E writable \in BOOLEAN : Save(writable)
    \/ \E writable \in BOOLEAN : Backup(writable)
    \/ \E writable \in BOOLEAN : Reset(writable)
    \/ Tick
    \/ \E category \in DelCategories :
          DelCategory(category) /\ UNCHANGED nEdits
    \/ Edit /\ DbColumnsUpdate
    \/ \E in \in MigrateInputs : Edit /\ MigrateColum(in[1], in[2])
    \/ Edit /\ SetId
    \/ \E writable \in BOOLEAN : Edit /\ SourcesSave(writable)
    \/ \E writable \in BOOLEAN : Edit /\ SourcesBackup(writable)
    \/ \E src \in NewSources, writable \in BOOLEAN : Edit /\ AddSource(src, writable)
    \/ \E writable \in BOOLEAN : Edit /\ SourcesReset(writable)
    \/ Edit /\ SourcesLoad
    \/ Return

SpecFiles == FilesInit /\ [][FilesNext]_vars

------------------------------------------------------------------------------
(* The source registry alone, changed any number of times, with the lookup  *)
(* of add                                                                   *)

SourcesNext ==
    \/ \E src \in NewSources, writable \in BOOLEAN :
          AddSource(src, writable) /\ UNCHANGED nEdits
    \/ \E writable \in BOOLEAN : SourcesReset(writable) /\ UNCHANGED nEdits
    \/ SourcesLoad /\ UNCHANGED nEdits
    \/ \E writable \in BOOLEAN : SourcesSave(writable) /\ UNCHANGED nEdits
    \/ \E writable \in BOOLEAN : SourcesBackup(writable) /\ UNCHANGED nEdits
    \/ Tick
    \/ \E in \in AddInputs : Add(in) /\ NoFiles
    \/ Return

SpecSources == Init /\ [][SourcesNext]_vars

------------------------------------------------------------------------------
(* The claims *)

Rows == 1..Len(df)

\* the call being returned from is a split that succeeded
SplitDone == last.op = "allot" /\ last.outcome = "ok"

\* of a split: the target before the call, the target after it, the new piece
Target == last.before[last.i + 1]
Original == df[last.rpos]
NewPiece == df[last.ppos]

Magnitude(x) == IF x < 0 THEN 0 - x ELSE x

\* C1: in every reachable state, whatever calls of add, add_bulk, update,
\* allot and link led to it, every row has total = amount + fee.
C1_TotalIsAmountPlusFee ==
    \A k \in Rows : df[k].total = df[k].amount + df[k].fee

\* C1 witness: an update that supplied an amount has returned on a store that
\* holds a split original and its piece.
C1_Witness ==
    /\ last.op = "update" /\ last.outcome = "ok" /\ last.arg.amount # <<>>
    /\ \E k \in Rows : df[k].piece
    /\ \E k \in Rows : ~IsNa(df[k].allot) /\ df[k].allot = df[k].id

\* C2: after a successful split the amount, the fee and the total the target
\* had before the call are the sums of those of the reduced original and of
\* the new piece.
C2_SplitConserves ==
    SplitDone =>
        /\ Target.amount = Original.amount + NewPiece.amount
        /\ Target.fee = Original.fee + NewPiece.fee
        /\ Target.total = Original.total + NewPiece.total

\* C2 witness: scenario A. A row with amount -100, fee -20, total -120 was
\* split by amount -30, fee 0: the original is -70 / -20 / -90, the piece
\* -30 / 0 / -30.
C2_Witness ==
    /\ SplitDone
    /\ Target.amount = 0 - 100 /\ Target.fee = 0 - 20 /\ Target.total = 0 - 120
    /\ last.arg.amount = 0 - 30 /\ last.arg.fee = 0
    /\ Original.amount = 0 - 70 /\ Original.fee = 0 - 20 /\ Original.total = 0 - 90
    /\ NewPiece.amount = 0 - 30 /\ NewPiece.fee = 0 /\ NewPiece.total = 0 - 30

\* C3: after add_bulk has returned, on any store (the empty one included) and
\* for batches whose rows come with an unset or zero id, every row has an id
\* that is set, not zero and different from the id of every other row.
C3_IdsSetAndUnique ==
    (last.op = "add_bulk" /\ last.outcome = "ok") =>
        /\ \A k \in Rows : ~IsNa(df[k].id) /\ df[k].id # 0
        /\ \A j, k \in Rows : j # k => df[j].id # df[k].id

\* C4: after every mutating call (add, add_bulk, allot, link, and update, also
\* an update that supplies a time) the rows are in ascending order of time.
C4_SortedAfterEveryCall ==
    (last.op \in {"add", "add_bulk", "allot", "link", "update"}
        /\ last.outcome = "ok")
    => IsSorted(df)

\* C5: a split whose portion, amount and fee taken together with the sign of
\* the target's direction, is larger in magnitude than the target's total
\* fails with SplitExceedsTotal and leaves the rows as they were; for expenses
\* and incomes alike, and also when one of amount and fee is zero.
C5_SplitExceedsTotal ==
    (/\ last.op = "allot"
     /\ Target.total # 0
     /\ Magnitude(last.arg.amount) + Magnitude(last.arg.fee)
            > Magnitude(Target.total))
    => /\ last.outcome = "fail"
       /\ last.err = "SplitExceedsTotal"
       /\ df = last.before

\* C6: a split whose amount is larger in magnitude than the target's amount,
\* or whose fee is larger in magnitude than the target's fee, fails (with
\* SplitExceedsField, or with SplitExceedsTotal when the earlier check of the
\* total rejects the same portion) and leaves the rows as they were; so a
\* successful split never leaves the original's amount or fee with the sign
\* opposite to the one it had.
C6_SplitExceedsField ==
    /\ (/\ last.op = "allot"
        /\ Target.total # 0
        /\ \/ Magnitude(last.arg.amount) > Magnitude(Target.amount)
           \/ Magnitude(last.arg.fee) > Magnitude(Target.fee))
       => /\ last.outcome = "fail"
          /\ last.err \in {"SplitExceedsField", "SplitExceedsTotal"}
          /\ df = last.before
    /\ SplitDone =>
          /\ ~(Target.amount > 0 /\ Original.amount < 0)
          /\ ~(Target.amount < 0 /\ Original.amount > 0)
          /\ ~(Target.fee > 0 /\ Original.fee < 0)
          /\ ~(Target.fee < 0 /\ Original.fee > 0)

\* C7: after a successful split of an expense (total < 0) the amount and the
\* fee of the new piece are both <= 0, after one of an income (total > 0) both
\* are >= 0, whatever signs were passed and whichever of the two is zero.
C7_PieceHasDirection ==
    SplitDone =>
        /\ Target.total < 0 => (NewPiece.amount <= 0 /\ NewPiece.fee <= 0)
        /\ Target.total > 0 => (NewPiece.amount >= 0 /\ NewPiece.fee >= 0)

\* C8: a split of a row that is a piece of an earlier split fails and changes
\* nothing (with AlreadySplitPiece, or with the error of an earlier check of
\* the portion), whether the row is known as a piece by its allot, set and
\* different from its id, or because allot appended it; so no piece is ever
\* reduced by a split.
C8_NoPieceIsSplit ==
    (/\ last.op = "allot"
     /\ \/ (~IsNa(Target.allot) /\ Target.allot # Target.id)
        \/ Target.piece)
    => /\ last.outcome = "fail"
       /\ last.err \in {"AlreadySplitPiece", "NothingToSplit",
                        "SplitExceedsTotal", "SplitExceedsField"}
       /\ df = last.before

\* C9: whenever a split returns a failure, whatever the cause, the rows are
\* exactly those before the call.
C9_FailedSplitWritesNothing ==
    (last.op = "allot" /\ last.outcome = "fail") => df = last.before

\* the rows other than the target and the new piece, before and after
OthersBefore == {k \in 1..Len(last.before) : k # last.i + 1}
OthersAfter == {k \in Rows : k # last.rpos /\ k # last.ppos}

\* C10: after a successful split of R, R's allot is R's id; one row was added,
\* with an id that no other row has, allot = R's id, the note passed and R's
\* time, type, source, description and currency; every other row is as before.
C10_SplitResult ==
    SplitDone =>
        /\ ~IsNa(Original.allot) /\ Original.allot = Original.id
        /\ Original.id = Target.id
        /\ Len(df) = Len(last.before) + 1
        /\ ~IsNa(NewPiece.id) /\ NewPiece.id # 0
        /\ \A k \in Rows : k # last.ppos => df[k].id # NewPiece.id
        /\ NewPiece.allot = Target.id
        /\ NewPiece.note = (IF last.arg.note = None THEN NA ELSE last.arg.note)
        /\ NewPiece.time = Target.time
        /\ NewPiece.type = Target.type
        /\ NewPiece.source = Target.source
        /\ NewPiece.desc = Target.desc
        /\ NewPiece.curr = Target.curr
        /\ \A k \in OthersBefore : \E j \in OthersAfter : df[j] = last.before[k]
        /\ \A j \in OthersAfter : \E k \in OthersBefore : df[j] = last.before[k]

\* the rows of a split family: the original at place pos and the rows whose
\* allot is set and is the original's id
Family(rows, pos, id) ==
    {pos} \cup {k \in 1..Len(rows) : ~IsNa(rows[k].allot) /\ rows[k].allot = id}

RECURSIVE SumOver(_, _, _)
SumOver(rows, S, col) ==
    IF S = {} THEN 0
    ELSE LET k == CHOOSE x \in S : TRUE
         IN  rows[k][col] + SumOver(rows, S \ {k}, col)

\* C11: every split call, successful or failed, leaves the sum of amount, of
\* fee and of total over the target and the rows whose allot is the target's
\* id as it was before the call; so after any sequence of splits of one
\* original these sums are the original's values before its first split.
C11_FamilySumKept ==
    last.op = "allot" =>
        \A col \in {"amount", "fee", "total"} :
            SumOver(df, Family(df, last.rpos, Target.id), col)
                = SumOver(last.before,
                          Family(last.before, last.i + 1, Target.id), col)

\* the call being returned from is a link of two or more targets
LinkCall == last.op = "link" /\ Len(last.arg) >= 2

\* the places (1-based) of the targets of that call
LinkTargets == {last.arg[k] + 1 : k \in 1..Len(last.arg)}

\* the link values set on the targets before the call
LinkedBefore ==
    {last.before[k].link : k \in {j \in LinkTargets : ~IsNa(last.before[j].link)}}

\* C12: a link call on targets that carry more than one distinct link value
\* fails with ConflictingLinks and leaves the link of every row as it was.
C12_ConflictingLinksRefused ==
    (LinkCall /\ Cardinality(LinkedBefore) > 1) =>
        /\ last.outcome = "fail"
        /\ last.err = "ConflictingLinks"
        /\ \A k \in Rows : df[k].link = last.before[k].link

\* C12 witness: link was called on a record of group 3 and a record of group
\* 7 and has returned its failure.
C12_Witness ==
    /\ LinkCall
    /\ LinkedBefore = {3, 7}
    /\ last.outcome = "fail"

\* C13: after a successful link of two or more targets every target carries
\* one link value: the one value found among the targets before the call if
\* there was one, otherwise the id of the first target of the list.
C13_LinkValue ==
    (LinkCall /\ last.outcome = "ok") =>
        LET v == IF Cardinality(LinkedBefore) = 1
                 THEN CHOOSE x \in LinkedBefore : TRUE
                 ELSE last.before[last.arg[1] + 1].id
        IN  \A k \in LinkTargets : df[k].link = v

\* C13 witness: scenario C. The records 3 and 7 were linked (link = 3 on
\* both), then 7 and 9 were linked: 9 carries link 3 as well.
C13_Witness ==
    /\ LinkCall /\ last.outcome = "ok"
    /\ last.arg = <<1, 2>>
    /\ last.before[1].id = 3 /\ last.before[2].id = 7 /\ last.before[3].id = 9
    /\ last.before[1].link = 3 /\ last.before[2].link = 3
    /\ IsNa(last.before[3].link)
    /\ df[1].link = 3 /\ df[2].link = 3 /\ df[3].link = 3

\* C14: link is idempotent. In the state a successful link has left, the same
\* call succeeds again, writes the link value the first call wrote and leaves
\* the rows as they are.
C14_LinkIdempotent ==
    (LinkCall /\ last.outcome = "ok") =>
        /\ link(df, last.arg).outcome = "ok"
        /\ LinkValue(df, last.arg) = df[last.arg[1] + 1].link
        /\ link(df, last.arg).rows = df

\* C14 witness: link was called a second time with the same two targets, which
\* the first call had linked, and has returned success with the rows unchanged.
C14_Witness ==
    /\ LinkCall /\ last.outcome = "ok"
    /\ last.arg[1] # last.arg[2]
    /\ \A k \in LinkTargets : ~IsNa(last.before[k].link)
    /\ df = last.before

\* C15: no link call, successful or failed, changes a link that was set, and
\* after a successful one all targets carry the same link; so a record is
\* never moved from one link group to another.
C15_OneLinkGroup ==
    last.op = "link" =>
        /\ \A k \in Rows :
              ~IsNa(last.before[k].link) => df[k].link = last.before[k].link
        /\ last.outcome = "ok" =>
              \A j, k \in LinkTargets : df[j].link = df[k].link

\* C15 witness: a successful link has joined an unlinked record to a record
\* that was linked already, while a third record belongs to another group.
C15_Witness ==
    /\ LinkCall /\ last.outcome = "ok"
    /\ \E j, k \in LinkTargets :
          /\ ~IsNa(last.before[j].link)
          /\ IsNa(last.before[k].link)
          /\ df[k].link = last.before[j].link
    /\ \E j, k \in Rows : ~IsNa(df[j].link) /\ ~IsNa(df[k].link)
                             /\ df[j].link # df[k].link

\* the call being returned from is an update that returned success
UpdateDone == last.op = "update" /\ last.outcome = "ok"

\* the places (1-based) of the rows that update targeted
UpdateTargeted == {t + 1 : t \in Targets(last.arg)}

Columns == {headers[j] : j \in 1..Len(headers)}

\* the columns for which the update call carried a value
Provided ==
    LET in == last.arg
    IN  (IF in.time # <<>> THEN {"time"} ELSE {})
        \cup (IF in.type # None THEN {"type"} ELSE {})
        \cup (IF in.source # None THEN {"source", "source_id"} ELSE {})
        \cup (IF in.description # None THEN {"desc"} ELSE {})
        \cup (IF in.amount # <<>> THEN {"amount"} ELSE {})
        \cup (IF in.fee # <<>> THEN {"fee"} ELSE {})
        \cup (IF in.note # None THEN {"note"} ELSE {})
        \cup (IF in.system # None THEN {"system"} ELSE {})
        \cup (IF in.category # None THEN {"category"} ELSE {})
        \cup (IF in.tags.kind # "none" THEN {"tags"} ELSE {})

\* C16: after a successful update every targeted row carries each value that
\* was provided in the column of that field and input = updated; its other
\* columns, input and a recomputed total aside, are as before, and so are the
\* rows that were not targeted.
C16_UpdateWritesOwnColumns ==
    UpdateDone =>
        LET in == last.arg
        IN  /\ Len(df) = Len(last.before)
            /\ \A k \in UpdateTargeted :
                  /\ df[k].input = "updated"
                  /\ in.time # <<>> =>
                        (df[k].time.v = in.time[1].v /\ df[k].time.bad = in.time[1].bad)
                  /\ in.type # None => df[k].type = in.type
                  /\ in.source # None => Lower(df[k].source) = Lower(in.source)
                  /\ in.description # None => df[k].desc = in.description
                  /\ in.amount # <<>> => df[k].amount = in.amount[1]
                  /\ in.fee # <<>> => df[k].fee = in.fee[1]
                  /\ in.note # None => df[k].note = in.note
                  /\ in.category # None => df[k].category = Canon(in.category)
                  /\ in.tags.kind # "none" => df[k].tags = CanonTags(in.tags.v)
                  /\ \A col \in (Columns \ {"input", "total"}) \ Provided :
                        df[k][col] = last.before[k][col]
                  /\ (in.amount = <<>> /\ in.fee = <<>>) =>
                        df[k].total = last.before[k].total
            /\ \A k \in Rows \ UpdateTargeted : df[k] = last.before[k]

\* the tags a row carries, none when the cell is missing
Carried(row) == IF row.tags = NATags THEN <<>> ELSE row.tags

\* new appended to old, without the entries old carries already
Merged(old, new) ==
    old \o SelectSeq(new, LAMBDA t : t \notin Elems(old))

\* C17: an update that supplies tags for rows it can target returns success;
\* in overwrite mode the tags of every targeted row are the supplied tags in
\* canonical form, in merge mode they are the tags the row carried, in their
\* order, followed by the supplied tags it did not carry.
C17_UpdateTags ==
    (/\ last.op = "update"
     /\ last.arg.tags.kind = "list"
     /\ TargetError(last.arg) = "")
    => /\ last.outcome = "ok"
       /\ \A k \in UpdateTargeted :
             df[k].tags =
                IF last.arg.overwrite_tags THEN CanonTags(last.arg.tags.v)
                ELSE Merged(Carried(last.before[k]), CanonTags(last.arg.tags.v))

\* C18: an update that names a source that is not registered returns a failure
\* result and leaves every row as it was, whatever else the call supplied.
C18_UnknownSourceWritesNothing ==
    (/\ last.op = "update"
     /\ last.arg.source # None
     /\ FindSource(last.arg.source) = 0
     /\ TargetError(last.arg) = "")
    => /\ last.outcome = "fail"
       /\ df = last.before

\* C19: add with a registered source returns success and leaves the rows that
\* were there plus exactly one more, with total = amount + fee, input =
\* manual and an id that is set, not zero and greater than every id the store
\* held, on every store, the empty one included; add with a source that is not
\* registered returns a failure and leaves the rows as they were.
C19_AddAppendsOne ==
    last.op = "add" =>
        IF FindSource(last.arg.source) = 0
        THEN last.outcome = "fail" /\ df = last.before
        ELSE /\ last.outcome = "ok"
             /\ Len(df) = Len(last.before) + 1
             /\ \E p \in Rows :
                   /\ df[p].amount = last.arg.amount
                   /\ df[p].fee = last.arg.fee
                   /\ df[p].total = last.arg.amount + last.arg.fee
                   /\ df[p].input = "manual"
                   /\ ~IsNa(df[p].id) /\ df[p].id # 0
                   /\ \A k \in 1..Len(last.before) :
                         /\ ~IsNa(last.before[k].id) => df[p].id > last.before[k].id
                         /\ \E j \in Rows \ {p} : df[j] = last.before[k]

\* the call being returned from is an add, update or allot
StoreCall == last.op \in {"add", "update", "allot"}

\* C20: after add, update and allot, on every row a category that is set and
\* not empty is in canonical form and in the category list of the vocabulary,
\* and every tag of the row is in canonical form and in the tag list; and an
\* add with a registered source and a category has stored a row that carries
\* the description given and the category in canonical form.
C20_StoredVocabularyCanonical ==
    /\ StoreCall =>
          \A k \in Rows :
              /\ df[k].category \notin {NA, ""} =>
                    (df[k].category = Canon(df[k].category)
                        /\ df[k].category \in categories)
              /\ \A t \in Elems(Carried(df[k])) : t = Canon(t) /\ t \in tags
    /\ (/\ last.op = "add"
        /\ FindSource(last.arg.source) # 0
        /\ last.arg.category # None)
       => \E k \in Rows : /\ df[k].desc = last.arg.desc
                           /\ df[k].category = Canon(last.arg.category)

\* the call being returned from is a search that returned
SearchDone == last.op = "search" /\ last.outcome = "ok"

\* C21: search returns the marker None exactly when no argument was given;
\* with any argument given it returns rows of the store (maybe none).
C21_NoneIffNoPredicate ==
    SearchDone =>
        /\ last.result.kind = "none" <=> last.arg = NoQuery
        /\ last.result.kind = "rows" =>
              \A l \in Elems(last.result.v) : l \in 0..(Len(df) - 1)

\* the query of the call with only its categories, and with only its tags
OnlyCategories == [NoQuery EXCEPT !.categories = last.arg.categories]
OnlyTags == [NoQuery EXCEPT !.tags = last.arg.tags]

\* the call searched for one category name and a list of tag names
JointSearch ==
    /\ SearchDone
    /\ last.arg = [NoQuery EXCEPT !.categories = last.arg.categories,
                                  !.tags = last.arg.tags]
    /\ last.arg.categories.kind = "str"
    /\ last.arg.categories.s \notin {"", "*"}
    /\ last.arg.tags.kind = "list"

\* C22: the records search returns for a registered category and a list of
\* registered tags together are those it returns for the category alone that
\* it also returns for the tags alone.
C22_JointIsIntersection ==
    JointSearch =>
        Elems(last.result.v) =
            Elems(search(df, categories, tags, OnlyCategories).v)
                \cap Elems(search(df, categories, tags, OnlyTags).v)

\* C22 witness: a joint search has returned a record, the category alone
\* returns a record more and the tags alone return another record more.
C22_Witness ==
    /\ JointSearch
    /\ Elems(last.result.v) # {}
    /\ Elems(search(df, categories, tags, OnlyCategories).v)
           \ Elems(last.result.v) # {}
    /\ Elems(search(df, categories, tags, OnlyTags).v)
           \ Elems(last.result.v) # {}

\* the labels of the rows that have no category, the empty one included
Uncategorised == {k - 1 : k \in {j \in Rows : df[j].category \in {NA, ""}}}

\* C23: on every store search(categories="") returns exactly the rows that
\* have no category, rows whose category is the explicit empty value included,
\* and search(categories="*") returns exactly the other rows.
C23_EmptyCategorySearch ==
    LET none == search(df, categories, tags,
                       [NoQuery EXCEPT !.categories = CatStr("")])
        any == search(df, categories, tags,
                      [NoQuery EXCEPT !.categories = CatStr("*")])
    IN  /\ none.kind = "rows" /\ Elems(none.v) = Uncategorised
        /\ any.kind = "rows"
        /\ Elems(any.v) = {k - 1 : k \in Rows} \ Uncategorised

\* C30: a table that search returns holds every row of the store at most once,
\* also when categories or tags is a list of several names.
C30_NoRecordTwice ==
    (SearchDone /\ last.result.kind = "rows") =>
        \A i, j \in 1..Len(last.result.v) :
            i # j => last.result.v[i] # last.result.v[j]

\* the set, non-zero ids among rows, each with the number of rows carrying it
IdCount(rows, v) == Cardinality({k \in 1..Len(rows) : rows[k].id = v})
SetIds(rows) == {rows[k].id : k \in 1..Len(rows)} \ {NaN, 0}

\* the batches of the add_bulk being returned from, combined and sorted, as they
\* stand before the id backfill
Combined == Sorted(Merge(last.before, last.arg))

\* C28: ids are stable. No call removes or changes a set, non-zero id: every
\* such id is carried by at least as many rows after the call as before it;
\* and the backfill of a successful add_bulk leaves the id of every row of the
\* combined table whose id was set and not zero.
C28_IdsStable ==
    /\ ~Idle => \A v \in SetIds(last.before) : IdCount(df, v) >= IdCount(last.before, v)
    /\ (last.op = "add_bulk" /\ last.outcome = "ok") =>
          \A k \in 1..Len(Combined) :
              Combined[k].id \notin {NaN, 0} => df[k].id = Combined[k].id

\* C28 is exercised: a successful add_bulk on a store that holds a set id has
\* backfilled the id of a row placed before the row that holds it
C28_Witness ==
    /\ last.op = "add_bulk" /\ last.outcome = "ok"
    /\ \E j, k \in 1..Len(Combined) :
          /\ j < k
          /\ Combined[j].id \in {NaN, 0} /\ df[j].id \notin {NaN, 0}
          /\ Combined[k].id \notin {NaN, 0} /\ df[k].id = Combined[k].id

\* C29: in every state that link, allot, add and add_bulk reach in any order
\* from a store without links, every link value in the store is the id of a
\* row that carries that same link value.
C29_LinkNamesMember ==
    \A k \in Rows :
        ~IsNa(df[k].link) =>
            \E j \in Rows : df[j].id = df[k].link /\ df[j].link = df[k].link

\* C29 is exercised: a record was split, a record and a piece were linked,
\* and an add_bulk that followed added a record, sorted the store and
\* backfilled the ids; the piece still names the first-linked record
C29_Witness ==
    /\ last.op = "add_bulk" /\ last.outcome = "ok"
    /\ Len(df) > Len(last.before)
    /\ \E k \in 1..Len(last.before) : ~IsNa(last.before[k].link)
    /\ \E j, k \in Rows : /\ j # k
                          /\ ~IsNa(df[k].allot)
                          /\ df[k].link = df[j].id
                          /\ df[j].link = df[j].id

\* the rows of a table as a multiset: how many times rows holds the record r
Times(rows, r) == Cardinality({k \in 1..Len(rows) : rows[k] = r})
SameRecords(a, b) ==
    /\ Len(a) = Len(b)
    /\ \A k \in 1..Len(a) : Times(a, a[k]) = Times(b, a[k])

\* C24: round trip. After a save that succeeded, constructing the store from
\* the directory yields the records that were saved, as a multiset.
C24_SaveLoadRoundTrip ==
    (last.op = "save" /\ last.outcome = "ok") =>
        LET res == load(disk, categories, tags)
        IN  res.outcome = "ok" /\ SameRecords(res.rows, df)

\* C25: a load that finds no canonical file leaves the empty table with the
\* canonical columns; a load that finds a file with another header reports
\* CorruptStore and leaves the empty table with the canonical columns too.
C25_LoadFallsBackToEmpty ==
    last.op = "load" =>
        /\ Canonical \notin DOMAIN disk =>
              last.outcome = "ok" /\ df = <<>> /\ columns = headers
        /\ (Canonical \in DOMAIN disk /\ disk[Canonical].header # headers) =>
              last.err = "CorruptStore" /\ df = <<>> /\ columns = headers

\* the snapshot files of a directory
Snapshots(d) == {n \in DOMAIN d : n.stem = "transactions_" /\ n.stamp # NoStamp}

\* C26: a backup that succeeded has written the whole table to the snapshot
\* named from the clock, has left the table as it was, and has left every
\* snapshot that was there before the call with the content it had.
C26_BackupNeverOverwrites ==
    (last.op = "backup" /\ last.outcome = "ok") =>
        /\ last.arg \in Snapshots(disk)
        /\ disk[last.arg] = to_csv(columns, df)
        /\ df = last.before
        /\ \A n \in Snapshots(last.disk) : disk[n] = last.disk[n]

\* C27: after a reset the table is empty with the canonical columns, and a
\* snapshot holds every record the table had just before the call.
C27_ResetBacksUpFirst ==
    last.op = "reset" =>
        /\ df = <<>> /\ columns = headers
        /\ \E n \in Snapshots(disk) :
              disk[n].lines = to_csv(disk[n].header, last.before).lines

==============================================================================
